---- MODULE Spec2Model ----
(***************************************************************************)
(* Model of yt-sv-translator: the rolling context tracker (context.py),    *)
(* the batch-response parser (translator.py) and the row pipeline driver   *)
(* (main.py).                                                              *)
(*                                                                         *)
(* Text values are sequences of one-character strings, so that strip,      *)
(* splitlines, the numbered-marker regex and term extraction are computed  *)
(* the way the Python code computes them.                                  *)
(*                                                                         *)
(* Four specifications share the variables:                                *)
(*   SpecParse  the parser applied to every bounded response text          *)
(*   SpecCtx    RollingContext.update under arbitrary call sequences       *)
(*   Spec       the driver's run, main(), over a bounded worksheet         *)
(*   SpecCall   one retried translate or write call, attempt by attempt    *)
(***************************************************************************)
EXTENDS Integers, Sequences, FiniteSets, TLC

VARIABLES
    \* ---- translator.py: one parse of one backend response
    raw,                \* the response text handed to the parser
    expected,           \* the expected item count
    parsed,             \* the parser's outcome (a Result record) or NoResult
    \* ---- context.py: the RollingContext instance
    window_size,
    max_glossary_terms,
    last_sources,
    last_outputs,
    last_speakers,
    glossary,           \* insertion-ordered dict: sequence of <<term, count>>
    nupd,               \* number of update calls made so far (bounded)
    \* ---- main.py: the run
    batch_size,
    skip_translated,
    force,
    dry_run,
    sheet,              \* the worksheet's rows from start_row on: sequence of
                        \* [ch, uk, en, sv], the cells of the four columns
    updates,            \* log of the updates made: sequence of [r, out]
    calls,              \* log of backend requests: sequence of [kind, rs]
    writes,             \* log of write calls: sequence of [kind, r, vals]
    last,               \* SpecCall: the call [fn, status] under way
    pc

vars == <<raw, expected, parsed,
          window_size, max_glossary_terms, last_sources, last_outputs,
          last_speakers, glossary, nupd,
          batch_size, skip_translated, force, dry_run, sheet,
          updates, calls, writes, last, pc>>

parseVars == <<raw, expected, parsed>>
ctxVars   == <<window_size, max_glossary_terms, last_sources, last_outputs,
               last_speakers, glossary, nupd>>
runVars   == <<batch_size, skip_translated, force, dry_run, sheet,
               updates, calls, writes, last>>

(***************************************************************************)
(* Bounds                                                                  *)
(***************************************************************************)
MaxLen      == 6    \* longest response text, in characters
MaxLines    == 3    \* most lines of a response composed of whole lines
MaxExpected == 3    \* largest expected item count of a parse
MaxW        == 2    \* largest configured window size
MaxG        == 2    \* largest configured glossary cap
MaxUpdates  == 3    \* update calls per SpecCtx behaviour
MaxRows     == 3    \* rows of the worksheet below the header

(***************************************************************************)
(* Text helpers (Python str methods)                                       *)
(***************************************************************************)
Min(S) == CHOOSE x \in S : \A y \in S : x <= y
Max(S) == CHOOSE x \in S : \A y \in S : x >= y

\* str.isspace for one character
IsSpace(c) == c \in {" ", "\n", "\t"}

\* the characters \d matches, and int() of one of them
DigitChars == <<"0", "1", "2", "3", "4", "5", "6", "7", "8", "9">>
IsDigit(c) == \E i \in 1..Len(DigitChars) : DigitChars[i] = c
DigitVal(c) == (CHOOSE i \in 1..Len(DigitChars) : DigitChars[i] = c) - 1

\* str.strip()
Strip(s) ==
    LET keep == {i \in 1..Len(s) : ~IsSpace(s[i])}
    IN  IF keep = {} THEN <<>> ELSE SubSeq(s, Min(keep), Max(keep))

\* str.splitlines(): split at every newline, no empty last line after a
\* trailing newline
RECURSIVE SplitLines(_)
SplitLines(s) ==
    IF s = <<>> THEN <<>>
    ELSE LET nl == {i \in 1..Len(s) : s[i] = "\n"}
         IN  IF nl = {} THEN <<s>>
             ELSE <<SubSeq(s, 1, Min(nl) - 1)>>
                     \o SplitLines(SubSeq(s, Min(nl) + 1, Len(s)))

\* sep.join(parts)
RECURSIVE Join(_, _)
Join(sep, parts) ==
    IF parts = <<>> THEN <<>>
    ELSE IF Len(parts) = 1 THEN parts[1]
    ELSE parts[1] \o sep \o Join(sep, Tail(parts))

\* int() of a run of digits
RECURSIVE ParseInt(_)
ParseInt(ds) ==
    IF ds = <<>> THEN 0
    ELSE 10 * ParseInt(SubSeq(ds, 1, Len(ds) - 1)) + DigitVal(ds[Len(ds)])

(***************************************************************************)
(* translator.py: LineTranslator._parse_batch_output                       *)
(***************************************************************************)
\* number of leading characters of s that satisfy P-ness given as a set of
\* positions that do NOT satisfy it
LeadCount(s, stop) == IF stop = {} THEN Len(s) ELSE Min(stop) - 1

\* re.match(r"^\s*(\d+)[\)\.]\s*(.*)$", line): the match, or matched = FALSE.
\* digits is group(1), rest is group(2)
MarkerMatch(line) ==
    LET p    == LeadCount(line, {i \in 1..Len(line) : ~IsSpace(line[i])})
        l2   == SubSeq(line, p + 1, Len(line))
        d    == LeadCount(l2, {i \in 1..Len(l2) : ~IsDigit(l2[i])})
        l3   == SubSeq(l2, d + 1, Len(l2))
        hit  == d >= 1 /\ Len(l3) >= 1 /\ l3[1] \in {")", "."}
        l4   == IF hit THEN SubSeq(l3, 2, Len(l3)) ELSE <<>>
        q    == LeadCount(l4, {i \in 1..Len(l4) : ~IsSpace(l4[i])})
    IN  [matched |-> hit,
         digits  |-> IF hit THEN SubSeq(l2, 1, d) ELSE <<>>,
         rest    |-> SubSeq(l4, q + 1, Len(l4))]

NoIdx == -1     \* current_idx = None

\* the state of the Strategy 1 loop before any line
ScanInit == [blocks |-> <<>>, current |-> <<>>, current_idx |-> NoIdx]

\* one iteration of the Strategy 1 loop
ScanLine(st, line) ==
    LET m == MarkerMatch(line)
    IN  IF m.matched
        THEN LET idx     == ParseInt(m.digits)
                 content == Strip(m.rest)
                 closing == st.current # <<>> /\ st.current_idx # NoIdx
             IN  [blocks      |-> IF closing
                                  THEN Append(st.blocks,
                                              Strip(Join(<<"\n">>, st.current)))
                                  ELSE st.blocks,
                  current     |-> IF content # <<>> THEN <<content>> ELSE <<>>,
                  current_idx |-> idx]
        ELSE IF st.current # <<>>
             THEN [st EXCEPT !.current = Append(st.current, Strip(line))]
             ELSE st

\* the Strategy 1 loop over all lines
RECURSIVE ScanLines(_, _)
ScanLines(st, lines) ==
    IF lines = <<>> THEN st
    ELSE ScanLines(ScanLine(st, lines[1]), Tail(lines))

\* blocks after the loop and the final "if current" push
NumberedBlocks(text) ==
    LET st == ScanLines(ScanInit, SplitLines(text))
    IN  IF st.current # <<>>
        THEN Append(st.blocks, Strip(Join(<<"\n">>, st.current)))
        ELSE st.blocks

\* fallback = [l.strip() for l in lines if l.strip()]
RECURSIVE NonEmptyLines(_)
NonEmptyLines(lines) ==
    IF lines = <<>> THEN <<>>
    ELSE IF Strip(lines[1]) # <<>>
         THEN <<Strip(lines[1])>> \o NonEmptyLines(Tail(lines))
         ELSE NonEmptyLines(Tail(lines))

\* mutant: the fallback keeps blank lines and does not trim
FallbackKeepsBlank(text) == SplitLines(text)

Fallback(text) == NonEmptyLines(SplitLines(text))

\* outcomes of a parse: a returned list, or the raised ValueError
Returned(list) == [ok |-> TRUE, val |-> list]
ParseFailure   == [ok |-> FALSE, val |-> <<>>]
NoResult       == [ok |-> FALSE, val |-> <<<<"-">>>>]

\* mutant: Strategy 1 returns its blocks without comparing their count
ParseBatchOutputNoCount(text, n) ==
    IF NumberedBlocks(text) # <<>> THEN Returned(NumberedBlocks(text))
    ELSE IF Len(Fallback(text)) = n THEN Returned(Fallback(text))
    ELSE IF n = 1 THEN Returned(<<Strip(text)>>)
    ELSE ParseFailure

ParseBatchOutput(text, n) ==
    IF Len(NumberedBlocks(text)) = n THEN Returned(NumberedBlocks(text))
    ELSE IF Len(Fallback(text)) = n THEN Returned(Fallback(text))
    ELSE IF n = 1 THEN Returned(<<Strip(text)>>)
    ELSE ParseFailure

\* translate_batch after a successful backend request: strip, then parse
TranslateBatchResult(output_text, n) == ParseBatchOutput(Strip(output_text), n)

\* values of the variables a specification does not use
IdleCtx ==
    /\ window_size = 0 /\ max_glossary_terms = 0
    /\ last_sources = <<>> /\ last_outputs = <<>> /\ last_speakers = <<>>
    /\ glossary = <<>> /\ nupd = 0
IdleRun ==
    /\ batch_size = 0 /\ skip_translated = FALSE /\ force = FALSE
    /\ dry_run = FALSE /\ sheet = <<>>
    /\ updates = <<>> /\ calls = <<>> /\ writes = <<>> /\ last = "none"
IdleParse ==
    /\ raw = <<>> /\ expected = 0 /\ parsed = NoResult

(***************************************************************************)
(* utils.py: extract_candidate_terms                                       *)
(***************************************************************************)
\* the ASCII part of [A-ZÅÄÖ]; texts of the model hold ASCII only
UpperChars == {"A", "B", "C", "D", "E", "F", "G", "H", "I", "J", "K", "L",
               "M", "N", "O", "P", "Q", "R", "S", "T", "U", "V", "W", "X",
               "Y", "Z"}
LowerChars == {"a", "b", "c", "d", "e", "f", "g", "h", "i", "j", "k", "l",
               "m", "n", "o", "p", "q", "r", "s", "t", "u", "v", "w", "x",
               "y", "z"}
IsUpper(c) == c \in UpperChars
\* [\wÅÄÖåäö\-']
IsTermChar(c) ==
    c \in UpperChars \cup LowerChars \cup {"_", "-", "'"} \/ IsDigit(c)

\* re.findall(r"[A-ZÅÄÖ][\wÅÄÖåäö\-']+", text): leftmost, greedy,
\* non-overlapping
RECURSIVE FindTerms(_)
FindTerms(s) ==
    IF s = <<>> THEN <<>>
    ELSE IF IsUpper(s[1]) /\ Len(s) >= 2 /\ IsTermChar(s[2])
         THEN LET t == Tail(s)
                  n == 1 + LeadCount(t, {i \in 1..Len(t) : ~IsTermChar(t[i])})
              IN  <<SubSeq(s, 1, n)>> \o FindTerms(SubSeq(s, n + 1, Len(s)))
         ELSE FindTerms(Tail(s))

ExtractCandidateTerms(text) ==
    LET Long(t) == Len(t) > 2
    IN  SelectSeq(FindTerms(text), Long)

(***************************************************************************)
(* context.py: RollingContext                                              *)
(***************************************************************************)
\* a RollingContext instance as a record
Rctx(w, g, srcs, outs, spk, gl) ==
    [window_size |-> w, max_glossary_terms |-> g, last_sources |-> srcs,
     last_outputs |-> outs, last_speakers |-> spk, glossary |-> gl]

\* RollingContext(window_size=w, max_glossary_terms=g)
NewRctx(w, g) == Rctx(w, g, <<>>, <<>>, <<>>, <<>>)

\* self.glossary[t] = self.glossary.get(t, 0) + 1 on an insertion-ordered dict
GlossaryCount(gl, t) ==
    LET at == {i \in 1..Len(gl) : gl[i].term = t}
    IN  IF at = {} THEN Append(gl, [term |-> t, count |-> 1])
        ELSE [gl EXCEPT ![Min(at)].count = @ + 1]

RECURSIVE GlossaryCountAll(_, _)
GlossaryCountAll(gl, terms) ==
    IF terms = <<>> THEN gl
    ELSE GlossaryCountAll(GlossaryCount(gl, terms[1]), Tail(terms))

\* mutant: pruning keeps the n entries inserted last, whatever their counts
MostCommonKeepsNewest(gl, n) ==
    LET keep == IF n <= 0 THEN 0 ELSE IF n < Len(gl) THEN n ELSE Len(gl)
    IN  SubSeq(gl, Len(gl) - keep + 1, Len(gl))

\* dict(Counter(gl).most_common(n)): the n highest counts, equal counts in
\* insertion order (heapq.nlargest is stable); nothing for n <= 0
MostCommon(gl, n) ==
    LET rank(i) == 1 + Cardinality({j \in 1..Len(gl) :
                        \/ gl[j].count > gl[i].count
                        \/ gl[j].count = gl[i].count /\ j < i})
        keep    == IF n <= 0 THEN 0 ELSE IF n < Len(gl) THEN n ELSE Len(gl)
    IN  [k \in 1..keep |-> gl[CHOOSE i \in 1..Len(gl) : rank(i) = k]]

\* mutant: the window is appended to and never evicted
PushWindowNoEvict(win, v, w) == IF v # <<>> THEN Append(win, v) ELSE win

\* mutant: an overfull window drops the element just appended
PushWindowDropsNewest(win, v, w) ==
    IF v # <<>>
    THEN LET a == Append(win, v)
         IN  IF Len(a) > w THEN SubSeq(a, 1, Len(a) - 1) ELSE a
    ELSE win

\* if v: win.append(v); if len(win) > window_size: win.pop(0)
PushWindow(win, v, w) ==
    IF v # <<>>
    THEN LET a == Append(win, v) IN IF Len(a) > w THEN Tail(a) ELSE a
    ELSE win

\* " ".join(filter(None, [character, source_text]))
Combined(character, source_text) ==
    LET NonEmpty(x) == x # <<>>
    IN  Join(<<" ">>, SelectSeq(<<character, source_text>>, NonEmpty))

\* RollingContext.update(character, source_text, out_text)
Update(c, character, source_text, out_text) ==
    LET gl == GlossaryCountAll(c.glossary,
                  ExtractCandidateTerms(Combined(character, source_text)))
    IN  [c EXCEPT
            !.last_sources  = PushWindow(@, source_text, c.window_size),
            !.last_speakers = PushWindow(@, character, c.window_size),
            !.last_outputs  = PushWindow(@, out_text, c.window_size),
            !.glossary      = IF Len(gl) > c.max_glossary_terms
                              THEN MostCommon(gl, c.max_glossary_terms)
                              ELSE gl]

\* the instance held in the variables
TheRctx == Rctx(window_size, max_glossary_terms, last_sources, last_outputs,
                last_speakers, glossary)

\* the variables take the fields of instance c
SetRctx(c) ==
    /\ window_size' = c.window_size
    /\ max_glossary_terms' = c.max_glossary_terms
    /\ last_sources' = c.last_sources
    /\ last_outputs' = c.last_outputs
    /\ last_speakers' = c.last_speakers
    /\ glossary' = c.glossary

\* the characters of the model's texts in code point order, for sorted()
CodeOrder == <<"\t", "\n", " ", "'", ")", "-", ".",
               "0", "1", "2", "3", "4", "5", "6", "7", "8", "9",
               "A", "B", "C", "D", "E", "F", "G", "H", "I", "J", "K", "L",
               "M", "N", "O", "P", "Q", "R", "S", "T", "U", "V", "W", "X",
               "Y", "Z", "_",
               "a", "b", "c", "d", "e", "f", "g", "h", "i", "j", "k", "l",
               "m", "n", "o", "p", "q", "r", "s", "t", "u", "v", "w", "x",
               "y", "z">>
Code(c) == CHOOSE i \in 1..Len(CodeOrder) : CodeOrder[i] = c

\* a < b for Python strings
StrLess(a, b) ==
    \E k \in 1..(Len(b)) :
        /\ \A i \in 1..(k - 1) : i <= Len(a) /\ a[i] = b[i]
        /\ \/ k = Len(a) + 1
           \/ k <= Len(a) /\ Code(a[k]) < Code(b[k])

\* sorted(self.glossary.keys())
SortedTerms(gl) ==
    LET ts == {gl[i].term : i \in 1..Len(gl)}
    IN  [k \in 1..Cardinality(ts) |->
            CHOOSE t \in ts : Cardinality({u \in ts : StrLess(u, t)}) = k - 1]

\* "\n".join(f"- {s}" for s in win)
Bullets(win) == Join(<<"\n">>, [i \in 1..Len(win) |-> <<"- ">> \o win[i]])

\* mutant: every section is rendered, an empty one as its bare header
BuildContextBlockAllHeaders(c) ==
    LET parts ==
            <<(<<"Recent speakers:\n">> \o Bullets(c.last_speakers)),
              (<<"Recent lines (source):\n">> \o Bullets(c.last_sources)),
              (<<"Recent output lines:\n">> \o Bullets(c.last_outputs)),
              (<<"Names/Terms glossary (keep consistent): ">>
                  \o Join(<<", ">>, SortedTerms(c.glossary)))>>
    IN  Join(<<"\n\n">>, parts)

\* RollingContext.build_context_block(); a header is one element of the text
BuildContextBlock(c) ==
    LET parts ==
            (IF c.last_speakers # <<>>
             THEN <<(<<"Recent speakers:\n">> \o Bullets(c.last_speakers))>>
             ELSE <<>>)
         \o (IF c.last_sources # <<>>
             THEN <<(<<"Recent lines (source):\n">> \o Bullets(c.last_sources))>>
             ELSE <<>>)
         \o (IF c.last_outputs # <<>>
             THEN <<(<<"Recent output lines:\n">> \o Bullets(c.last_outputs))>>
             ELSE <<>>)
         \o (IF c.glossary # <<>>
             THEN <<(<<"Names/Terms glossary (keep consistent): ">>
                        \o Join(<<", ">>, SortedTerms(c.glossary)))>>
             ELSE <<>>)
    IN  Join(<<"\n\n">>, parts)

(***************************************************************************)
(* main.py: the run.  main() builds the translator, the context tracker    *)
(* and the sheet client, and then calls                                    *)
(*   client.read_rows(ws, start_row, ch_col, uk_col, en_col, sv_col,       *)
(*                    header_rows, limit=limit)              (line 184)    *)
(* with seven positional arguments and limit=, against                     *)
(*   SheetClient.read_rows(self, ws, start_row, ch_col, en_col, sv_col,    *)
(*                         header_rows, limit=0)        (sheets.py:31).    *)
(* The seventh positional argument is bound to limit, so the call raises   *)
(* TypeError (multiple values for 'limit') before the reader's body runs.  *)
(* The call is not inside a try block: main() ends there, before           *)
(* processed = 0 (187) and before either row loop (191, 302).              *)
(***************************************************************************)
StartRow == 2       \* start_row = header_rows + 1, header_rows = 1

\* the rows a worksheet can hold: the cells of character_col, russian_col,
\* english_col and swedish_col
SheetRows ==
    { [ch |-> <<"A", "n", "n">>, uk |-> <<"H", "e", "j">>, en |-> <<>>,
       sv |-> <<>>],
      [ch |-> <<>>, uk |-> <<>>, en |-> <<"H", "i", " ", "E", "v", "e">>,
       sv |-> <<>>],
      [ch |-> <<"A", "n", "n">>, uk |-> <<"H", "e", "j">>,
       en |-> <<"H", "i", " ", "E", "v", "e">>, sv |-> <<"G", "a", "m">>],
      [ch |-> <<"A", "n", "n">>, uk |-> <<>>, en |-> <<>>, sv |-> <<>>],
      [ch |-> <<>>, uk |-> <<>>, en |-> <<>>, sv |-> <<"G", "a", "m">>] }

\* the worksheets: up to MaxRows rows below the header
Sheets == UNION { [1..n -> SheetRows] : n \in 0..MaxRows }

\* the sheet row index of the i-th row from start_row on
RowIndex(i) == StartRow + i - 1

\* the configured batch sizes: 1 is the unbatched mode
BatchSizes == {1, 2, 3}

\* main() up to line 182: configuration merged, translator and tracker
\* built, worksheet opened; nothing requested, written or updated yet
Init ==
    /\ batch_size \in BatchSizes
    /\ skip_translated \in BOOLEAN
    /\ force \in BOOLEAN
    /\ dry_run \in BOOLEAN
    /\ sheet \in Sheets
    /\ updates = <<>> /\ calls = <<>> /\ writes = <<>>
    /\ last = "none"
    /\ LET c == NewRctx(MaxW, MaxG)
       IN  /\ window_size = c.window_size
           /\ max_glossary_terms = c.max_glossary_terms
           /\ last_sources = c.last_sources
           /\ last_outputs = c.last_outputs
           /\ last_speakers = c.last_speakers
           /\ glossary = c.glossary
    /\ nupd = 0
    /\ pc = "read_rows"
    /\ IdleParse

\* rows = client.read_rows(...) at line 184: the call raises TypeError, rows
\* is not assigned and the exception ends main()
ReadRows ==
    /\ pc = "read_rows"
    /\ pc' = "aborted"
    /\ UNCHANGED <<parseVars, ctxVars, runVars>>

Next == ReadRows

Spec == Init /\ [][Next]_vars

(***************************************************************************)
(* Claims about the run                                                    *)
(***************************************************************************)
\* the tests of the row loops on a row: not (uk or en), and
\* skip_translated and (not force) and sv.strip()
NoSource(row) == row.uk = <<>> /\ row.en = <<>>
AlreadyTranslated(row) ==
    skip_translated /\ ~force /\ Strip(row.sv) # <<>>
\* the row is to be translated: it has source text and is not skipped
Queued(row) == ~NoSource(row) /\ ~AlreadyTranslated(row)

\* the run has ended: at "Done", or by an uncaught exception
Ended == pc \in {"done", "aborted"}

\* a logged backend request carried row index r
CallHas(c, r) == \E k \in 1..Len(c.rs) : c.rs[k] = r

\* C5: when the run has ended, every row with a source and an existing
\* output, with skip enabled and force off, has updated the rolling context
\* exactly once, with its existing output, and was part of no backend
\* request, in unbatched and in batched mode.
C5_SkippedRowUpdatedOnce ==
    Ended =>
        \A i \in 1..Len(sheet) :
            (~NoSource(sheet[i]) /\ AlreadyTranslated(sheet[i])) =>
                /\ Cardinality({k \in 1..Len(updates) :
                                   updates[k].r = RowIndex(i)}) = 1
                /\ \A k \in 1..Len(updates) :
                      updates[k].r = RowIndex(i) => updates[k].out = sheet[i].sv
                /\ \A k \in 1..Len(calls) : ~CallHas(calls[k], RowIndex(i))

\* C13: whatever the backend requests and the writes return, the run does
\* not abort: it is never ended by an exception.
C13_RunNeverAborts == pc # "aborted"

\* C20: in unbatched mode, when the run has ended every row that is neither
\* empty nor already translated has caused exactly one translate call, and
\* outside dry-run at most one cell write, addressed to its own index.
C20_UnbatchedOneCallOneWrite ==
    (Ended /\ batch_size <= 1) =>
        \A i \in 1..Len(sheet) : Queued(sheet[i]) =>
            /\ Cardinality({k \in 1..Len(calls) :
                               /\ calls[k].kind = "one"
                               /\ calls[k].rs = <<RowIndex(i)>>}) = 1
            /\ Cardinality({k \in 1..Len(writes) :
                               writes[k].r = RowIndex(i)})
                  <= (IF dry_run THEN 0 ELSE 1)

\* C22: in batched mode with batch size B, translate_batch is never called
\* with no item or with more than B items, the rows of a batch are in
\* ascending row-index order, and when the run has ended every row queued
\* for translation is part of exactly one flushed batch.
C22_BatchesBoundedAndDisjoint ==
    batch_size > 1 =>
        /\ \A k \in 1..Len(calls) : calls[k].kind = "batch" =>
              LET rs == calls[k].rs
              IN  /\ Len(rs) >= 1 /\ Len(rs) <= batch_size
                  /\ \A i, j \in 1..Len(rs) : i < j => rs[i] < rs[j]
        /\ Ended =>
              \A i \in 1..Len(sheet) : Queued(sheet[i]) =>
                  Cardinality({k \in 1..Len(calls) :
                                  /\ calls[k].kind = "batch"
                                  /\ CallHas(calls[k], RowIndex(i))}) = 1

(***************************************************************************)
(* SpecParse: the parser applied to every response text within the bounds  *)
(***************************************************************************)
Alphabet == {"1", ")", " ", "\n", "a"}
\* the response texts: every text over the alphabet up to MaxLen characters,
\* and every text of up to MaxLines lines, each a marker without content, a
\* marker with content or a plain line
CharTexts == UNION {[1..n -> Alphabet] : n \in 0..MaxLen}
LineKinds == { <<"1", ")">>, <<"1", ")", "a">>, <<"a">> }
LineTexts == { Join(<<"\n">>, ls) :
                 ls \in UNION {[1..n -> LineKinds] : n \in 1..MaxLines} }
Texts     == CharTexts \cup LineTexts

InitParse ==
    /\ raw \in Texts
    /\ expected \in 1..MaxExpected
    /\ parsed = NoResult
    /\ pc = "parse"
    /\ IdleCtx /\ IdleRun

\* _parse_batch_output(raw, expected) called directly
ParseCall ==
    /\ pc = "parse"
    /\ parsed' = ParseBatchOutput(raw, expected)
    /\ pc' = "parsed"
    /\ UNCHANGED <<raw, expected, ctxVars, runVars>>

\* translate_batch receiving raw as the backend's output_text
TranslateBatchCall ==
    /\ pc = "parse"
    /\ parsed' = TranslateBatchResult(raw, expected)
    /\ pc' = "returned"
    /\ UNCHANGED <<raw, expected, ctxVars, runVars>>

NextParse == ParseCall \/ TranslateBatchCall

SpecParse == InitParse /\ [][NextParse]_vars

\* the text _parse_batch_output was given in the current state
ParsedText == IF pc = "returned" THEN Strip(raw) ELSE raw
ParseDone  == pc \in {"parsed", "returned"}

(***************************************************************************)
(* Claims about the parser                                                 *)
(***************************************************************************)
\* The numbered blocks a response contains, read off the response itself:
\* every marker line opens a block, whose content is the marker's trailing
\* text and the non-marker lines up to the next marker, each trimmed, joined
\* by newline and trimmed.
MarkerLines(lines) == {i \in 1..Len(lines) : MarkerMatch(lines[i]).matched}

ClaimedBlock(lines, i) ==
    LET later == {j \in MarkerLines(lines) : j > i}
        stop  == IF later = {} THEN Len(lines) ELSE Min(later) - 1
        body  == <<Strip(MarkerMatch(lines[i]).rest)>>
                    \o [k \in 1..(stop - i) |-> Strip(lines[i + k])]
    IN  Strip(Join(<<"\n">>, body))

ClaimedBlocks(text) ==
    LET lines == SplitLines(text)
        marks == MarkerLines(lines)
        kth(k) == CHOOSE i \in marks :
                      Cardinality({j \in marks : j < i}) = k - 1
    IN  [k \in 1..Cardinality(marks) |-> ClaimedBlock(lines, kth(k))]

\* The non-empty trimmed lines of a response, in order of appearance.
ClaimedLines(text) ==
    LET lines   == SplitLines(text)
        trimmed == [i \in 1..Len(lines) |-> Strip(lines[i])]
        NonEmpty(l) == l # <<>>
    IN  SelectSeq(trimmed, NonEmpty)

\* C7: whenever parsing returns a result for an expected count N >= 1, the
\* result has exactly N entries, whatever the response text; so does the
\* result of translate_batch.
C7_ResultHasExpectedLength ==
    (ParseDone /\ parsed.ok) => Len(parsed.val) = expected

\* C7 witness: translate_batch returned a list for three items that was not
\* produced by Strategy 1.
C7_Witness ==
    /\ pc = "returned" /\ parsed.ok /\ expected = 3
    /\ Len(NumberedBlocks(ParsedText)) # 3

\* C8: a response that contains exactly N numbered blocks, each started by a
\* marker line, parses to those N block contents in order of appearance,
\* marker removed, whatever the number of non-empty lines.
C8_NumberedBlocksReturned ==
    (ParseDone /\ Len(ClaimedBlocks(ParsedText)) = expected)
        => parsed = Returned(ClaimedBlocks(ParsedText))

\* C9: when the numbered-block count differs from N (counted on the response
\* or as the parser counts it) and the response has exactly N non-empty
\* trimmed lines, those lines are returned in order of appearance.
C9_FallbackLinesReturned ==
    (/\ ParseDone
     /\ \/ Len(ClaimedBlocks(ParsedText)) # expected
        \/ Len(NumberedBlocks(ParsedText)) # expected
     /\ Len(ClaimedLines(ParsedText)) = expected)
        => parsed = Returned(ClaimedLines(ParsedText))

\* C9 witness: two plain lines, no numbering, two items expected.
C9_Witness ==
    /\ ParseDone /\ expected = 2
    /\ MarkerLines(SplitLines(ParsedText)) = {}
    /\ Len(ClaimedLines(ParsedText)) = 2
    /\ parsed.ok

\* C10: with exactly one expected item, when the response holds neither
\* exactly one numbered block nor exactly one non-empty line, the result is
\* the single-element list holding the whole trimmed response; with one
\* expected item parsing never signals a failure.
C10_SingleItemPassthrough ==
    (ParseDone /\ expected = 1)
        => /\ parsed.ok
           /\ (/\ Len(ClaimedBlocks(ParsedText)) # 1
               /\ Len(ClaimedLines(ParsedText)) # 1)
                  => parsed = Returned(<<Strip(ParsedText)>>)

\* C11: with two or more expected items, when the number of numbered blocks
\* of the response differs from the expected count and the non-empty line
\* count differs from it too, parsing signals a failure: no list is
\* returned, neither a shortened nor a padded one.
C11_MismatchIsFailure ==
    (/\ ParseDone /\ expected >= 2
     /\ Len(ClaimedBlocks(ParsedText)) # expected
     /\ Len(ClaimedLines(ParsedText)) # expected)
        => parsed = ParseFailure

\* C23: numbered-block scanning opens a block at every marker line, also one
\* without trailing content, appends the following non-marker lines to it
\* and pushes it at the next marker or at the end: the parsed blocks are the
\* blocks of the response, as many as it has marker lines.
C23_EveryMarkerOpensBlock ==
    ParseDone =>
        /\ Len(NumberedBlocks(ParsedText)) =
              Cardinality(MarkerLines(SplitLines(ParsedText)))
        /\ NumberedBlocks(ParsedText) = ClaimedBlocks(ParsedText)

(***************************************************************************)
(* SpecCtx: RollingContext.update under arbitrary call sequences           *)
(***************************************************************************)
Speakers == {<<>>, <<"A", "n", "n">>, <<"B", "o">>}
Sources  == {<<>>, <<"H", "e", "j", " ", "E", "v", "e">>,
             <<"O", "s", "l", "o", " ", "R", "e", "x">>}
Outputs  == {<<>>, <<"s", "v">>, <<"o", "k">>}

\* the arguments of one update call: every speaker with every source text,
\* and an output text that runs through Outputs with them
SpeakerList == <<(<<>>), <<"A", "n", "n">>, <<"B", "o">>>>
SourceList  == <<(<<>>), <<"H", "e", "j", " ", "E", "v", "e">>,
                 <<"O", "s", "l", "o", " ", "R", "e", "x">>>>
OutputList  == <<(<<>>), <<"s", "v">>, <<"o", "k">>>>
UpdateArgs ==
    { [character |-> SpeakerList[i], source_text |-> SourceList[j],
       out_text |-> OutputList[((i + j) % Len(OutputList)) + 1]] :
         i \in 1..Len(SpeakerList), j \in 1..Len(SourceList) }

InitCtx ==
    /\ window_size \in 0..MaxW
    /\ max_glossary_terms \in 0..MaxG
    /\ last_sources = <<>> /\ last_outputs = <<>> /\ last_speakers = <<>>
    /\ glossary = <<>>
    /\ nupd = 0
    /\ pc = "ctx"
    /\ IdleParse /\ IdleRun

UpdateCall ==
    /\ pc = "ctx"
    /\ nupd < MaxUpdates
    /\ \E a \in UpdateArgs :
          /\ a.character \in Speakers /\ a.source_text \in Sources
          /\ a.out_text \in Outputs
          /\ SetRctx(Update(TheRctx, a.character, a.source_text, a.out_text))
          /\ updates' = Append(updates, a)
    /\ nupd' = nupd + 1
    /\ UNCHANGED <<pc, parseVars, batch_size, skip_translated, force, dry_run,
                   sheet, calls, writes, last>>

NextCtx == UpdateCall

SpecCtx == InitCtx /\ [][NextCtx]_vars

GlossaryTerms == {glossary[i].term : i \in 1..Len(glossary)}

\* C1: after any sequence of update calls, each of the three windows has at
\* most window_size elements and the glossary at most max_glossary_terms
\* entries.
C1_WindowsAndGlossaryBounded ==
    pc = "ctx" =>
        /\ Len(last_speakers) <= window_size
        /\ Len(last_sources) <= window_size
        /\ Len(last_outputs) <= window_size
        /\ Len(glossary) <= max_glossary_terms

\* C1 witness: with window size 1 the speaker Ann, still counted in the
\* glossary, was evicted by Bo, and the glossary is full having dropped a
\* term of the retained source line.
C1_Witness ==
    /\ pc = "ctx" /\ window_size = 1 /\ max_glossary_terms = 2
    /\ last_speakers = <<(<<"B", "o">>)>>
    /\ <<"A", "n", "n">> \in GlossaryTerms
    /\ Len(last_sources) = 1 /\ Len(last_outputs) = 1
    /\ Len(glossary) = 2
    /\ \E t \in {<<"O", "s", "l", "o">>, <<"R", "e", "x">>} :
          /\ t \notin GlossaryTerms
          /\ last_sources = <<(<<"O", "s", "l", "o", " ", "R", "e", "x">>)>>

\* the non-empty values the update calls so far appended to a window and
\* the last n elements of a sequence
NonEmptyText(x) == x # <<>>
AppendedSpeakers ==
    SelectSeq([k \in 1..Len(updates) |-> updates[k].character], NonEmptyText)
AppendedSources ==
    SelectSeq([k \in 1..Len(updates) |-> updates[k].source_text], NonEmptyText)
AppendedOutputs ==
    SelectSeq([k \in 1..Len(updates) |-> updates[k].out_text], NonEmptyText)
LastN(q, n) == IF n >= Len(q) THEN q ELSE SubSeq(q, Len(q) - n + 1, Len(q))

\* C18: each of the three windows is a strict FIFO queue: with n non-empty
\* values appended so far it holds the last min(window_size, n) of them in
\* insertion order, so an append that overfills it removes the oldest
\* element and keeps the order of the others.
C18_WindowsAreFifo ==
    pc = "ctx" =>
        /\ last_speakers = LastN(AppendedSpeakers, window_size)
        /\ last_sources = LastN(AppendedSources, window_size)
        /\ last_outputs = LastN(AppendedOutputs, window_size)

\* C18 witness: with window size 2 the speakers Ann, Bo, Ann were appended;
\* the window holds Bo, Ann, and the source window has evicted too.
C18_Witness ==
    /\ pc = "ctx" /\ window_size = 2
    /\ AppendedSpeakers = <<(<<"A", "n", "n">>), <<"B", "o">>, <<"A", "n", "n">>>>
    /\ last_speakers = <<(<<"B", "o">>), <<"A", "n", "n">>>>
    /\ Len(AppendedSources) = 3 /\ Len(last_sources) = 2
    /\ last_sources[1] # last_sources[2]

\* the terms of a glossary, the count it holds for a term (0 when absent),
\* and how often a term occurs in a list of extracted terms
TermsOf(gl) == {gl[i].term : i \in 1..Len(gl)}
CountOf(gl, t) ==
    IF t \in TermsOf(gl)
    THEN gl[CHOOSE i \in 1..Len(gl) : gl[i].term = t].count ELSE 0
Occurrences(terms, t) == Cardinality({k \in 1..Len(terms) : terms[k] = t})

\* C24: an update raises the glossary count of each extracted candidate
\* term by one per occurrence, a new term starting at 1, before pruning;
\* when the glossary then has more than max_glossary_terms entries it is cut
\* to exactly that many, every retained count being at least every dropped
\* count; when it has at most that many no term is dropped.
C24_GlossaryCountedThenPruned ==
    [][pc = "ctx" =>
          \A terms \in {ExtractCandidateTerms(
                           Combined(updates'[Len(updates')].character,
                                    updates'[Len(updates')].source_text))} :
          \A all \in {TermsOf(glossary) \cup {terms[k] : k \in 1..Len(terms)}} :
          \A kept \in {TermsOf(glossary')} :
          LET after(t) == CountOf(glossary, t) + Occurrences(terms, t)
          IN  /\ kept \subseteq all
              /\ Len(glossary') = Cardinality(kept)
              /\ \A t \in kept : CountOf(glossary', t) = after(t)
              /\ Cardinality(all) > max_glossary_terms =>
                    /\ Cardinality(kept) = max_glossary_terms
                    /\ \A t \in kept, u \in all \ kept : after(t) >= after(u)
              /\ Cardinality(all) <= max_glossary_terms => kept = all]_vars

\* C24 witness: with a cap of 2 the speaker Ann was counted twice, then a
\* source line brought two new terms; Ann was kept with count 2 and the
\* newer of the two terms was dropped.
C24_Witness ==
    /\ pc = "ctx" /\ max_glossary_terms = 2 /\ nupd = 3
    /\ updates[3].character = <<>>
    /\ updates[3].source_text = <<"H", "e", "j", " ", "E", "v", "e">>
    /\ CountOf(glossary, <<"A", "n", "n">>) = 2
    /\ CountOf(glossary, <<"H", "e", "j">>) = 1
    /\ <<"E", "v", "e">> \notin TermsOf(glossary)

\* the section headers of a context block, in the order they occur in it
Headers ==
    {"Recent speakers:\n", "Recent lines (source):\n",
     "Recent output lines:\n", "Names/Terms glossary (keep consistent): "}
IsHeader(x) == x \in Headers
HeadersOf(block) == SelectSeq(block, IsHeader)
IsBlankLine(x) == x = "\n\n"

\* C19: build_context_block renders exactly the sections whose state is not
\* empty, in the order speakers, source lines, output lines, glossary, with
\* no header for an empty section and one blank line between sections; the
\* block is the empty text exactly when the three windows and the glossary
\* are all empty, as on a new tracker.
C19_OnlyNonEmptySectionsRendered ==
    pc = "ctx" =>
        LET block == BuildContextBlock(TheRctx)
            heads == HeadersOf(block)
        IN  /\ heads =
                  (IF last_speakers # <<>>
                   THEN <<"Recent speakers:\n">> ELSE <<>>)
               \o (IF last_sources # <<>>
                   THEN <<"Recent lines (source):\n">> ELSE <<>>)
               \o (IF last_outputs # <<>>
                   THEN <<"Recent output lines:\n">> ELSE <<>>)
               \o (IF glossary # <<>>
                   THEN <<"Names/Terms glossary (keep consistent): ">>
                   ELSE <<>>)
            /\ (block # <<>>) => IsHeader(block[1])
            /\ Len(SelectSeq(block, IsBlankLine)) = Max({Len(heads), 1}) - 1
            /\ (block = <<>>) <=>
                  (/\ last_speakers = <<>> /\ last_sources = <<>>
                   /\ last_outputs = <<>> /\ glossary = <<>>)

\* C19 witness: after updates without speaker and without output text the
\* block holds the source section and the glossary section only.
C19_Witness ==
    /\ pc = "ctx" /\ nupd >= 1
    /\ last_speakers = <<>> /\ last_outputs = <<>>
    /\ last_sources # <<>> /\ glossary # <<>>
    /\ HeadersOf(BuildContextBlock(TheRctx)) =
          <<"Recent lines (source):\n",
            "Names/Terms glossary (keep consistent): ">>

(***************************************************************************)
(* SpecCall: one call of a retried operation, attempt by attempt           *)
(*   translate, translate_batch   the tenacity wrapper of translator.py    *)
(*   write_cell_with_retry, write_range_with_retry   the driver's wrappers *)
(* last is the call [fn, status], expected the item count, calls the       *)
(* backend requests and writes the write attempts it has issued, raw the   *)
(* last response text and parsed the value returned.                       *)
(***************************************************************************)
stop_after_attempt == 5
max_retries == 8

TranslateFns == {"translate", "translate_batch"}
WriteFns == {"write_cell_with_retry", "write_range_with_retry"}

\* resp.output_text of a backend request that came back
Responses ==
    { <<>>, <<"a">>, <<" ", "a", "\n">>, <<"a", "\n", "a">>,
      <<"1", ")", "a", "\n", "2", ")", "a">> }

InitCall ==
    /\ pc = "call"
    /\ last \in [fn : TranslateFns \cup WriteFns, status : {"running"}]
    /\ expected \in 0..MaxExpected
    /\ (last.fn # "translate_batch") => expected = 1
    /\ raw = <<>> /\ parsed = NoResult
    /\ calls = <<>> /\ writes = <<>>
    /\ batch_size = 0 /\ skip_translated = FALSE /\ force = FALSE
    /\ dry_run = FALSE /\ sheet = <<>> /\ updates = <<>>
    /\ IdleCtx

Running(fns) == pc = "call" /\ last.fn \in fns /\ last.status = "running"

\* the status after the n-th attempt failed in a retryable way
AfterFailure(n, limit) == IF n >= limit THEN "failed" ELSE "running"

callIdle == <<pc, expected, batch_size, skip_translated, force, dry_run,
              sheet, updates, ctxVars>>

\* one attempt of translate: the request raises, or its text is returned
TranslateRequest ==
    /\ Running({"translate"})
    /\ \/ /\ calls' = Append(calls, [kind |-> "one", out |-> "error"])
          /\ last' = [last EXCEPT !.status =
                          AfterFailure(Len(calls) + 1, stop_after_attempt)]
          /\ UNCHANGED <<raw, parsed>>
       \/ \E resp \in Responses :
             /\ calls' = Append(calls, [kind |-> "one", out |-> "ok"])
             /\ raw' = resp
             /\ parsed' = Returned(<<Strip(resp)>>)
             /\ last' = [last EXCEPT !.status = "returned"]
    /\ UNCHANGED <<writes, callIdle>>

\* translate_batch: if not items: return []
TranslateBatchEmpty ==
    /\ Running({"translate_batch"})
    /\ expected = 0
    /\ parsed' = Returned(<<>>)
    /\ last' = [last EXCEPT !.status = "returned"]
    /\ UNCHANGED <<raw, calls, writes, callIdle>>

\* mutant: a response that cannot be parsed fails the call at once
TranslateBatchRequestNoParseRetry ==
    /\ Running({"translate_batch"})
    /\ expected > 0
    /\ \/ /\ calls' = Append(calls, [kind |-> "batch", out |-> "error"])
          /\ last' = [last EXCEPT !.status =
                          AfterFailure(Len(calls) + 1, stop_after_attempt)]
          /\ UNCHANGED <<raw, parsed>>
       \/ \E resp \in Responses :
             LET p == TranslateBatchResult(resp, expected)
             IN  /\ raw' = resp
                 /\ calls' = Append(calls,
                        [kind |-> "batch",
                         out |-> IF p.ok THEN "ok" ELSE "unparseable"])
                 /\ parsed' = IF p.ok THEN p ELSE parsed
                 /\ last' = [last EXCEPT !.status =
                                 IF p.ok THEN "returned" ELSE "failed"]
    /\ UNCHANGED <<writes, callIdle>>

\* one attempt of translate_batch: the request raises, or its text is
\* stripped and parsed; a ValueError of the parser is an exception of the
\* retried function like any other
TranslateBatchRequest ==
    /\ Running({"translate_batch"})
    /\ expected > 0
    /\ \/ /\ calls' = Append(calls, [kind |-> "batch", out |-> "error"])
          /\ last' = [last EXCEPT !.status =
                          AfterFailure(Len(calls) + 1, stop_after_attempt)]
          /\ UNCHANGED <<raw, parsed>>
       \/ \E resp \in Responses :
             LET p == TranslateBatchResult(resp, expected)
             IN  /\ raw' = resp
                 /\ calls' = Append(calls,
                        [kind |-> "batch",
                         out |-> IF p.ok THEN "ok" ELSE "unparseable"])
                 /\ parsed' = IF p.ok THEN p ELSE parsed
                 /\ last' = [last EXCEPT !.status =
                                 IF p.ok THEN "returned"
                                 ELSE AfterFailure(Len(calls) + 1,
                                                   stop_after_attempt)]
    /\ UNCHANGED <<writes, callIdle>>

\* what one write attempt does: it succeeds, or it raises an error that
\* is_rate_limit_error accepts ("rate") or rejects ("other")
WriteOutcomes == {"ok", "rate", "other"}

\* one pass of the loop of write_cell_with_retry / write_range_with_retry
WriteWithRetry ==
    /\ Running({"write_cell_with_retry", "write_range_with_retry"})
    /\ \E out \in WriteOutcomes :
          /\ writes' = Append(writes,
                 [kind |-> IF last.fn = "write_cell_with_retry"
                           THEN "cell" ELSE "range",
                  out |-> out])
          /\ last' = [last EXCEPT !.status =
                          IF out = "ok" THEN "returned"
                          ELSE IF out = "rate"
                               THEN AfterFailure(Len(writes) + 1, max_retries)
                          ELSE "failed"]
    /\ UNCHANGED <<raw, parsed, calls, callIdle>>

NextCall ==
    \/ TranslateRequest \/ TranslateBatchEmpty \/ TranslateBatchRequest
    \/ WriteWithRetry

SpecCall == InitCall /\ [][NextCall]_vars

AnyOut(log, out) == \E k \in 1..Len(log) : log[k].out = out

\* C15: one call of translate or translate_batch issues at most five backend
\* requests; every failed attempt, a raised request or (translate_batch) a
\* response that cannot be parsed, counts against that ceiling; a successful
\* attempt is the last one and the call returns; the call fails exactly
\* when five attempts have failed.
C15_AtMostFiveRequests ==
    (pc = "call" /\ last.fn \in TranslateFns) =>
        /\ Len(calls) <= stop_after_attempt
        /\ \A k \in 1..Len(calls) : calls[k].out = "ok" => k = Len(calls)
        /\ AnyOut(calls, "ok") => last.status = "returned"
        /\ (last.status = "returned") =>
              \/ AnyOut(calls, "ok")
              \/ last.fn = "translate_batch" /\ expected = 0 /\ calls = <<>>
        /\ (last.status = "failed") <=>
              (Len(calls) = stop_after_attempt /\ ~AnyOut(calls, "ok"))
        /\ (last.status = "returned" /\ last.fn = "translate_batch")
              => /\ parsed.ok /\ Len(parsed.val) = expected

\* C15 witness: a translate_batch call has failed after attempts of both
\* kinds, raised requests and responses that could not be parsed.
C15_Witness ==
    /\ pc = "call" /\ last.fn = "translate_batch" /\ last.status = "failed"
    /\ AnyOut(calls, "error") /\ AnyOut(calls, "unparseable")
    /\ Len(calls) = stop_after_attempt

\* the wrappers write_cell_with_retry and write_range_with_retry, called on
\* their own: a write is retried while it fails with a rate or quota limit
\* error, up to eight attempts; an error of another kind ends it at that
\* attempt; it is reported successful exactly when an attempt succeeded
WrappersRetryOnRateLimit ==
    (pc = "call" /\ last.fn \in WriteFns) =>
        /\ Len(writes) <= max_retries
        /\ \A k \in 1..Len(writes) :
              writes[k].out \in {"ok", "other"} => k = Len(writes)
        /\ (last.status = "returned") <=> AnyOut(writes, "ok")
        /\ (last.status = "failed") <=>
              \/ AnyOut(writes, "other")
              \/ Len(writes) = max_retries /\ ~AnyOut(writes, "ok")
====
